---- MODULE Spec2Model ----
(***************************************************************************)
(* Model of flatisfy/config.py: the default configuration, the validator   *)
(* validate_config (with its helper _check_constraints_bounds), the        *)
(* resolver load_config and the template writer init_config.               *)
(*                                                                         *)
(* Python values are tagged records [t, id, v]: t is the Python type, v    *)
(* the content and id the object identity of a dict ("-" for the other     *)
(* types, whose identity no code path of this module observes).  A str is  *)
(* a tuple of characters, so that upper() and os.path.join are computed;   *)
(* a float is modelled by the integer it equals (2.0 is PyFloat(2)).       *)
(***************************************************************************)
EXTENDS Integers, Sequences, FiniteSets, TLC

VARIABLES
  interpreter,     \* "python2": the builtin name unicode is bound; "python3": it is not
  default_config,  \* the module attribute DEFAULT_CONFIG (a dict object that lives on)
  call,            \* the last call made: its name and its arguments
  config_data,     \* the local config_data of the last load_config / init_config call
  outcome,         \* how the last call ended: returned value or propagated exception
  handed_out       \* the object the last load_config returned, as its caller holds it

vars == <<interpreter, default_config, call, config_data, outcome, handed_out>>

----------------------------------------------------------------------------
(* Bounds of the model *)

\* Numbers a configuration may carry range over -1 .. MaxNum
MaxNum == 1
\* Bound sequences have 0 .. MaxBoundLen elements
MaxBoundLen == 3

----------------------------------------------------------------------------
(* Python values *)

None == [t |-> "None", id |-> "-", v |-> 0]
PyInt(n) == [t |-> "int", id |-> "-", v |-> n]
PyFloat(n) == [t |-> "float", id |-> "-", v |-> n]
PyBool(b) == [t |-> "bool", id |-> "-", v |-> b]
PyStr(s) == [t |-> "str", id |-> "-", v |-> s]
PyList(s) == [t |-> "list", id |-> "-", v |-> s]
PyTuple(s) == [t |-> "tuple", id |-> "-", v |-> s]
PyDict(i, f) == [t |-> "dict", id |-> i, v |-> f]

\* The characters of the key names the code tests with the "in" operator
Chars(key) ==
  CASE key = "type" -> <<"t","y","p","e">>
    [] key = "house_types" -> <<"h","o","u","s","e","_","t","y","p","e","s">>
    [] key = "postal_codes" -> <<"p","o","s","t","a","l","_","c","o","d","e","s">>
    [] key = "area" -> <<"a","r","e","a">>
    [] key = "cost" -> <<"c","o","s","t">>
    [] key = "rooms" -> <<"r","o","o","m","s">>
    [] key = "bedrooms" -> <<"b","e","d","r","o","o","m","s">>
    [] key = "time_to" -> <<"t","i","m","e","_","t","o">>
    [] key = "gps" -> <<"g","p","s">>
    [] key = "time" -> <<"t","i","m","e">>
    [] OTHER -> <<key>>

LowerCase == <<"a","b","c","d","e","f","g","h","i","j","k","l","m",
               "n","o","p","q","r","s","t","u","v","w","x","y","z">>
UpperCase == <<"A","B","C","D","E","F","G","H","I","J","K","L","M",
               "N","O","P","Q","R","S","T","U","V","W","X","Y","Z">>

\* str.upper() on the characters of a str
UpChar(c) ==
  IF \E i \in DOMAIN LowerCase : LowerCase[i] = c
  THEN UpperCase[CHOOSE i \in DOMAIN LowerCase : LowerCase[i] = c]
  ELSE c
Upper(s) == [i \in DOMAIN s |-> UpChar(s[i])]

\* x.upper(): only a str has the attribute
UpperExc(x) == IF x.t = "str" THEN "ok" ELSE "AttributeError"

\* len(x), and whether x has a length / can be iterated / supports "in"
HasLen(x) == x.t \in {"list", "tuple", "str", "dict"}
PyLen(x) ==
  IF x.t = "dict" THEN Cardinality(DOMAIN x.v)
  ELSE IF HasLen(x) THEN Len(x.v) ELSE 0

\* truth value of x, as taken by "assert x"
Truthy(x) ==
  CASE x.t = "None" -> FALSE
    [] x.t = "bool" -> x.v
    [] x.t \in {"int", "float"} -> x.v # 0
    [] OTHER -> PyLen(x) > 0

IsSubstring(p, s) ==
  \E i \in 0 .. Len(s) :
     /\ i + Len(p) <= Len(s)
     /\ \A j \in 1 .. Len(p) : s[i + j] = p[j]

\* key in x  (key is always a str in this module)
ContainsExc(x) == IF HasLen(x) THEN "ok" ELSE "TypeError"
Contains(key, x) ==
  CASE x.t = "dict" -> key \in DOMAIN x.v
    [] x.t \in {"list", "tuple"} -> \E i \in DOMAIN x.v : x.v[i] = PyStr(Chars(key))
    [] x.t = "str" -> IsSubstring(Chars(key), x.v)
    [] OTHER -> FALSE

\* x[key] with a str key: KeyError on a dict without the key, TypeError on
\* anything that is not a dict
GetItemExc(x, key) ==
  IF x.t = "dict"
  THEN IF key \in DOMAIN x.v THEN "ok" ELSE "KeyError"
  ELSE "TypeError"
GetItem(x, key) == IF GetItemExc(x, key) = "ok" THEN x.v[key] ELSE None

\* the keys of a dict in the order the interpreter iterates them
RECURSIVE KeySeq(_)
KeySeq(S) ==
  IF S = {} THEN <<>>
  ELSE LET k == CHOOSE k \in S : TRUE IN <<k>> \o KeySeq(S \ {k})

\* for e in x: the elements a loop or a generator sees
Elements(x) ==
  CASE x.t \in {"list", "tuple"} -> x.v
    [] x.t = "str" -> [i \in DOMAIN x.v |-> PyStr(<<x.v[i]>>)]
    [] x.t = "dict" -> LET ks == KeySeq(DOMAIN x.v)
                       IN [i \in DOMAIN ks |-> PyStr(Chars(ks[i]))]
    [] OTHER -> <<>>

\* isinstance
IsStr(x) == x.t = "str"
IsInt(x) == x.t \in {"int", "bool"}
IsFloatOrInt(x) == x.t \in {"float", "int", "bool"}
NumVal(x) == IF x.t = "bool" THEN (IF x.v THEN 1 ELSE 0) ELSE x.v

----------------------------------------------------------------------------
(* validate_config *)

\* the result of one statement: the exception it raises ("ok": none) and the
\* line of the innermost frame, which is the one the traceback reports
Step(e, l) == [exc |-> e, line |-> l]
Passed == Step("ok", 0)

\* the first statement of a sequence that does not pass
RECURSIVE FirstExc(_)
FirstExc(steps) ==
  IF steps = <<>> THEN Passed
  ELSE IF Head(steps).exc # "ok" THEN Head(steps)
  ELSE FirstExc(Tail(steps))

_check_constraints_bounds_nonstrict(bounds) ==
  IF ~HasLen(bounds) THEN Step("TypeError", 79)
  ELSE IF PyLen(bounds) # 2 THEN Step("AssertionError", 79)
  ELSE IF ~ \A i \in DOMAIN Elements(bounds) :
              LET x == Elements(bounds)[i]
              IN x.t = "None" \/ (IsFloatOrInt(x) /\ NumVal(x) >= 0)
       THEN Step("AssertionError", 80)
  ELSE IF /\ bounds.t \in {"list", "tuple"}
          /\ bounds.v[1].t # "None" /\ bounds.v[2].t # "None"
          /\ ~ (NumVal(bounds.v[2]) >= NumVal(bounds.v[1]))
       THEN Step("AssertionError", 89)
  ELSE Passed

_check_constraints_bounds(bounds) ==
  IF ~HasLen(bounds) THEN Step("TypeError", 79)
  ELSE IF PyLen(bounds) # 2 THEN Step("AssertionError", 79)
  ELSE IF ~ \A i \in DOMAIN Elements(bounds) :
              LET x == Elements(bounds)[i]
              IN x.t = "None" \/ (IsFloatOrInt(x) /\ NumVal(x) >= 0)
       THEN Step("AssertionError", 80)
  ELSE IF /\ bounds.t \in {"list", "tuple"}
          /\ bounds.v[1].t # "None" /\ bounds.v[2].t # "None"
          /\ ~ (NumVal(bounds.v[2]) > NumVal(bounds.v[1]))
       THEN Step("AssertionError", 89)
  ELSE Passed

\* config["constraints"][key]: the exception of the two subscripts, and the value
SubExc(config, key) ==
  IF GetItemExc(config, "constraints") # "ok"
  THEN GetItemExc(config, "constraints")
  ELSE GetItemExc(GetItem(config, "constraints"), key)
Sub(config, key) == GetItem(GetItem(config, "constraints"), key)

\* assert key in config["constraints"]
EnsureIn(config, key, line) ==
  IF GetItemExc(config, "constraints") # "ok"
  THEN Step(GetItemExc(config, "constraints"), line)
  ELSE IF ContainsExc(GetItem(config, "constraints")) # "ok"
  THEN Step("TypeError", line)
  ELSE IF ~Contains(key, GetItem(config, "constraints"))
  THEN Step("AssertionError", line)
  ELSE Passed

\* assert cond, on a value read by subscripts that raise exc
Ensure(exc, cond, line) ==
  IF exc # "ok" THEN Step(exc, line)
  ELSE IF ~cond THEN Step("AssertionError", line)
  ELSE Passed

TYPES == {<<"R","E","N","T">>, <<"S","A","L","E">>, <<"S","H","A","R","I","N","G">>}
HOUSE_TYPES == {<<"A","P","A","R","T">>, <<"H","O","U","S","E">>,
                <<"P","A","R","K","I","N","G">>, <<"L","A","N","D">>,
                <<"O","T","H","E","R">>, <<"U","N","K","N","O","W","N">>}

\* lines 97-100; line 98 reads the name unicode after its first argument, and
\* the name is bound only by a Python 2 interpreter: elsewhere the statement
\* raises NameError
CheckType(config) ==
  << EnsureIn(config, "type", 97),
     IF SubExc(config, "type") # "ok" THEN Step(SubExc(config, "type"), 98)
     ELSE IF interpreter = "python3" THEN Step("NameError", 98)
     ELSE Ensure("ok", IsStr(Sub(config, "type")), 98),
     IF SubExc(config, "type") # "ok" THEN Step(SubExc(config, "type"), 99)
     ELSE Ensure(UpperExc(Sub(config, "type")),
                 Sub(config, "type").t = "str" /\ Upper(Sub(config, "type").v) \in TYPES, 99) >>

\* lines 102-106
CheckHouseTypes(config) ==
  << EnsureIn(config, "house_types", 102),
     Ensure(SubExc(config, "house_types"), Truthy(Sub(config, "house_types")), 103),
     IF SubExc(config, "house_types") # "ok" THEN Step(SubExc(config, "house_types"), 104)
     ELSE IF ~HasLen(Sub(config, "house_types")) THEN Step("TypeError", 104)
     ELSE LET es == Elements(Sub(config, "house_types"))
          IN FirstExc([i \in DOMAIN es |->
                Ensure(UpperExc(es[i]),
                       es[i].t = "str" /\ Upper(es[i].v) \in HOUSE_TYPES, 105)]) >>

\* lines 108-109
CheckPostalCodes(config) ==
  << EnsureIn(config, "postal_codes", 108),
     Ensure(SubExc(config, "postal_codes"), Truthy(Sub(config, "postal_codes")), 109) >>

\* lines 111-112, 114-115, 117-118, 120-121
CheckBound(config, key, line) ==
  << EnsureIn(config, key, line),
     IF SubExc(config, key) # "ok" THEN Step(SubExc(config, key), line + 1)
     ELSE _check_constraints_bounds(Sub(config, key)) >>

\* lines 126-131, the body of the loop for one item of time_to
CheckTimeToItem(item) ==
  FirstExc(<<
     IF ContainsExc(item) # "ok" THEN Step("TypeError", 127)
     ELSE Ensure("ok", Contains("gps", item), 127),
     Ensure(GetItemExc(item, "gps"), GetItem(item, "gps").t = "list", 128),
     Ensure(GetItemExc(item, "gps"), PyLen(GetItem(item, "gps")) = 2, 129),
     IF ContainsExc(item) # "ok" THEN Step("TypeError", 130)
     ELSE Ensure("ok", Contains("time", item), 130),
     IF GetItemExc(item, "time") # "ok" THEN Step(GetItemExc(item, "time"), 131)
     ELSE _check_constraints_bounds(GetItem(item, "time")) >>)

\* lines 123-131
CheckTimeTo(config) ==
  << EnsureIn(config, "time_to", 123),
     Ensure(SubExc(config, "time_to"), Sub(config, "time_to").t = "dict", 124),
     IF Sub(config, "time_to").t # "dict" THEN Step("AttributeError", 125)
     ELSE LET d == Sub(config, "time_to").v
              ks == KeySeq(DOMAIN d)
          IN FirstExc([i \in DOMAIN ks |-> CheckTimeToItem(d[ks[i]])]) >>

NoneOrStr(x) == x.t = "None" \/ IsStr(x)

\* lines 133-145, one statement each
CheckTop(config, key) ==
  LET x == GetItem(config, key)
      e == GetItemExc(config, key)
  IN CASE key = "passes" ->
            <<Ensure(e, IsFloatOrInt(x) /\ NumVal(x) \in {0, 1, 2, 3}, 133)>>
       [] key = "max_entries" ->
            <<Ensure(e, x.t = "None" \/ (IsInt(x) /\ NumVal(x) > 0), 134)>>
       [] key = "data_directory" -> <<Ensure(e, NoneOrStr(x), 136)>>
       [] key = "search_index" -> <<Ensure(e, IsStr(x), 137)>>
       [] key = "modules_path" -> <<Ensure(e, NoneOrStr(x), 138)>>
       [] key = "database" -> <<Ensure(e, NoneOrStr(x), 140)>>
       [] key = "port" -> <<Ensure(e, IsInt(x), 142)>>
       [] key = "host" -> <<Ensure(e, IsStr(x), 143)>>
       [] key = "webserver" -> <<Ensure(e, NoneOrStr(x), 144)>>
       [] key = "backends" -> <<Ensure(e, x.t \in {"None", "list"}, 145)>>

\* the checks of validate_config in the order the try block runs them
ChecksReordered ==
  << "passes", "type", "house_types", "postal_codes", "area", "cost", "rooms",
     "bedrooms", "time_to", "max_entries", "data_directory", "search_index",
     "modules_path", "database", "port", "host", "webserver", "backends" >>

Checks ==
  << "type", "house_types", "postal_codes", "area", "cost", "rooms",
     "bedrooms", "time_to", "passes", "max_entries", "data_directory",
     "search_index", "modules_path", "database", "port", "host", "webserver",
     "backends" >>

\* the statements of one check
CheckSteps(config, check) ==
  CASE check = "type" -> CheckType(config)
    [] check = "house_types" -> CheckHouseTypes(config)
    [] check = "postal_codes" -> CheckPostalCodes(config)
    [] check = "area" -> CheckBound(config, "area", 111)
    [] check = "cost" -> CheckBound(config, "cost", 114)
    [] check = "rooms" -> CheckBound(config, "rooms", 117)
    [] check = "bedrooms" -> CheckBound(config, "bedrooms", 120)
    [] check = "time_to" -> CheckTimeTo(config)
    [] OTHER -> CheckTop(config, check)

\* the first exception the try block meets
TryBlock(config) ==
  FirstExc([i \in DOMAIN Checks |-> FirstExc(CheckSteps(config, Checks[i]))])

\* what validate_config does with the exception: nothing raised, True;
\* the except clause turns the two caught classes into the line of the
\* innermost frame; any other exception propagates
Returned(kind, line) == [k |-> kind, line |-> line, exc |-> "-"]
Raised(exc, line) == [k |-> "raise", line |-> line, exc |-> exc]

ExceptClause == {"AssertionError", "KeyError"}

validate_config_except_true(config) ==
  LET s == TryBlock(config)
  IN IF s.exc = "ok" \/ s.exc \in ExceptClause THEN Returned("True", 0)
     ELSE Raised(s.exc, s.line)

validate_config(config) ==
  LET s == TryBlock(config)
  IN IF s.exc = "ok" THEN Returned("True", 0)
     ELSE IF s.exc \in ExceptClause THEN Returned("location", s.line)
     ELSE Raised(s.exc, s.line)

----------------------------------------------------------------------------
(* DEFAULT_CONFIG and the external collaborators of load_config *)

NoBound == PyTuple(<<None, None>>)

\* lines 23-63
DEFAULT_CONFIG ==
  PyDict("DEFAULT_CONFIG",
    [key \in {"constraints", "navitia_api_key", "passes", "max_entries",
              "data_directory", "modules_path", "database", "search_index",
              "port", "host", "webserver", "backends"} |->
       CASE key = "constraints" ->
              PyDict("DEFAULT_CONFIG.constraints",
                [sub \in {"type", "house_types", "postal_codes", "area", "cost",
                          "rooms", "bedrooms", "time_to"} |->
                   CASE sub = "type" -> None
                     [] sub \in {"house_types", "postal_codes"} -> PyList(<<>>)
                     [] sub = "time_to" -> PyDict("DEFAULT_CONFIG.constraints.time_to", <<>>)
                     [] OTHER -> NoBound])
         [] key = "passes" -> PyInt(3)
         [] key = "port" -> PyInt(8080)
         [] key = "host" -> PyStr(<<"1","2","7",".","0",".","0",".","1">>)
         [] OTHER -> None])

\* appdirs.user_data_dir("flatisfy", "flatisfy"): the platform's directory
UserDataDir == <<"/","x","d","g","/","f","l","a","t","i","s","f","y">>

FLATISFY_DB == <<"f","l","a","t","i","s","f","y",".","d","b">>
SEARCH_INDEX == <<"s","e","a","r","c","h","_","i","n","d","e","x">>
SQLITE == <<"s","q","l","i","t","e",":","/","/","/">>

\* os.path.join(a, b) of posixpath, on the characters of two str
Join(a, b) ==
  IF b # <<>> /\ b[1] = "/" THEN b
  ELSE IF a = <<>> \/ a[Len(a)] = "/" THEN a \o b
  ELSE a \o <<"/">> \o b

\* os.path.join raises when its first argument is not a str: TypeError from
\* Python 3's posixpath, AttributeError (no endswith) from Python 2's
JoinExc(x) ==
  IF x.t = "str" THEN "ok"
  ELSE IF interpreter = "python3" THEN "TypeError" ELSE "AttributeError"

\* dict.copy(): a new dict object holding the same value objects
DictCopy(d, newid) == PyDict(newid, d.v)

\* d[key] = value
SetItem(d, key, value) == PyDict(d.id, (key :> value) @@ d.v)

\* dict.update(other), as far as it gets: a dict is merged key by key; any
\* other iterable is read as a sequence of key/value pairs, one element
\* after the other (an element that cannot be iterated: TypeError; one whose
\* length is not 2: ValueError; the keys of the modelled pairs are str whose
\* characters are one chunk, <<"port">>); anything else cannot be iterated
RECURSIVE UpdatePairs(_, _)
UpdatePairs(d, es) ==
  IF es = <<>> THEN [d |-> d, exc |-> "ok"]
  ELSE LET e == Head(es)
       IN IF ~HasLen(e) THEN [d |-> d, exc |-> "TypeError"]
          ELSE IF PyLen(e) # 2 THEN [d |-> d, exc |-> "ValueError"]
          ELSE IF Elements(e)[1].t \in {"list", "dict"}
               THEN [d |-> d, exc |-> "TypeError"]
          ELSE UpdatePairs(SetItem(d, Elements(e)[1].v[1], Elements(e)[2]), Tail(es))

Update(d, other) ==
  IF other.t = "dict" THEN [d |-> PyDict(d.id, other.v @@ d.v), exc |-> "ok"]
  ELSE IF HasLen(other) THEN UpdatePairs(d, Elements(other))
  ELSE [d |-> d, exc |-> "TypeError"]

----------------------------------------------------------------------------
(* load_config *)

\* args is None, or an argparse namespace whose attributes are None when the
\* option was not given; file is what open() and json.load() do with the
\* path args.config
NoFile == [kind |-> "json", value |-> None]
NoArgs ==
  [given |-> FALSE, config |-> None, file |-> NoFile, passes |-> None,
   max_entries |-> None, port |-> None, host |-> None, data_dir |-> None]

\* lines 165-175: the exception of the with block, and config_data after it
LoadExcCaughtIOError == {"IOError"}
LoadExcCaught == {"IOError", "ValueError"}

LoadFile(cd, args) ==
  IF ~(args.given /\ Truthy(args.config)) THEN [d |-> cd, exc |-> "ok"]
  ELSE IF args.file.kind \in {"missing", "unreadable"} THEN [d |-> cd, exc |-> "IOError"]
  ELSE IF args.file.kind = "invalid_json" THEN [d |-> cd, exc |-> "ValueError"]
  ELSE Update(cd, args.file.value)

\* lines 178-195: one CLI option overloads one key when it is not None
OverloadIfTruthy(cd, args, attr, key) ==
  IF args.given /\ Truthy(args[attr]) THEN SetItem(cd, key, args[attr]) ELSE cd

Overload(cd, args, attr, key) ==
  IF args.given /\ args[attr].t # "None" THEN SetItem(cd, key, args[attr]) ELSE cd

\* str(x) of the builtins: a str is itself, a number its decimal digits
Digits == <<"0", "1", "2", "3", "4", "5", "6", "7", "8", "9">>
RECURSIVE Decimal(_)
Decimal(n) ==
  IF n < 0 THEN <<"-">> \o Decimal(-n)
  ELSE IF n < 10 THEN <<Digits[n + 1]>>
  ELSE Decimal(n \div 10) \o <<Digits[(n % 10) + 1]>>
BuiltinStr(x) ==
  CASE x.t = "str" -> x
    [] x.t = "int" -> PyStr(Decimal(x.v))
    [] x.t = "bool" -> PyStr(IF x.v THEN <<"T","r","u","e">> ELSE <<"F","a","l","s","e">>)
    [] OTHER -> PyStr(<<"N","o","n","e">>)

\* lines 193-195: the host is overloaded with str(args.host)
OverloadHost(cd, args) ==
  IF args.given /\ args.host.t # "None"
  THEN SetItem(cd, "host", BuiltinStr(args.host)) ELSE cd

Overloads(cd, args) ==
  OverloadHost(Overload(Overload(Overload(cd, args, "passes", "passes"),
                                 args, "max_entries", "max_entries"),
                        args, "port", "port"),
               args)

\* lines 198-207
DataDirectory(cd, args) ==
  IF args.given /\ args.data_dir.t # "None"
  THEN SetItem(cd, "data_directory", args.data_dir)
  ELSE IF cd.v["data_directory"].t = "None"
  THEN SetItem(cd, "data_directory", PyStr(UserDataDir))
  ELSE cd

\* lines 209-213 and 215-219: a key that is None is derived from data_directory
DeriveAlways(cd, key, prefix, name) ==
  IF JoinExc(cd.v["data_directory"]) # "ok"
  THEN [d |-> cd, exc |-> JoinExc(cd.v["data_directory"])]
  ELSE [d |-> SetItem(cd, key, PyStr(prefix \o Join(cd.v["data_directory"].v, name))),
        exc |-> "ok"]

Derive(cd, key, prefix, name) ==
  IF cd.v[key].t # "None" THEN [d |-> cd, exc |-> "ok"]
  ELSE IF JoinExc(cd.v["data_directory"]) # "ok"
  THEN [d |-> cd, exc |-> JoinExc(cd.v["data_directory"])]
  ELSE [d |-> SetItem(cd, key, PyStr(prefix \o Join(cd.v["data_directory"].v, name))),
        exc |-> "ok"]

NotValidated == Returned("-", 0)

\* how a call ends: k is "config" (config_data returned), "None" (None
\* returned) or "raise"; errors are the LOGGER.error records of the call
Outcome(k, exc, line, errors, validation) ==
  [k |-> k, exc |-> exc, line |-> line, errors |-> errors, validation |-> validation,
   sink |-> "-"]

\* lines 153-226: the local config_data when the call ends, and its outcome
load_config(args) ==
  LET loaded == LoadFile(DictCopy(default_config, "config_data"), args)
      errors == IF loaded.exc \in LoadExcCaught THEN <<"load">> ELSE <<>>
      cd1 == DataDirectory(Overloads(loaded.d, args), args)
      db == Derive(cd1, "database", SQLITE, FLATISFY_DB)
      si == Derive(db.d, "search_index", <<>>, SEARCH_INDEX)
      config_validation == validate_config(si.d)
  IN IF loaded.exc \notin LoadExcCaught \cup {"ok"}
     THEN [config_data |-> loaded.d,
           outcome |-> Outcome("raise", loaded.exc, 169, errors, NotValidated)]
     ELSE IF db.exc # "ok"
     THEN [config_data |-> db.d,
           outcome |-> Outcome("raise", db.exc, 210, errors, NotValidated)]
     ELSE IF si.exc # "ok"
     THEN [config_data |-> si.d,
           outcome |-> Outcome("raise", si.exc, 216, errors, NotValidated)]
     ELSE IF config_validation.k = "raise"
     THEN [config_data |-> si.d,
           outcome |-> Outcome("raise", config_validation.exc, config_validation.line,
                               errors, config_validation)]
     ELSE IF config_validation.k = "True"
     THEN [config_data |-> si.d,
           outcome |-> Outcome("config", "-", 0, errors, config_validation)]
     ELSE [config_data |-> si.d,
           outcome |-> Outcome("None", "-", 0, errors \o <<"validation">>,
                               config_validation)]

\* lines 229-241: the default configuration is copied and handed to
\* tools.pretty_json; the text goes to the file output, or to stdout when
\* output is None, empty or "-"
init_config(output) ==
  [config_data |-> DictCopy(default_config, "config_data"),
   outcome |-> [Outcome("None", "-", 0, <<>>, NotValidated) EXCEPT
                  !.sink = IF Truthy(output) /\ output # PyStr(<<"-">>)
                           THEN "file" ELSE "stdout"]]

----------------------------------------------------------------------------
(* The inputs of the calls *)

S(c1, c2) == PyStr(<<c1, c2>>)

ValidConstraints ==
  PyDict("json",
    [sub \in {"type", "house_types", "postal_codes", "area", "cost",
              "rooms", "bedrooms", "time_to"} |->
       CASE sub = "type" -> PyStr(<<"r","e","n","t">>)
         [] sub = "house_types" -> PyList(<<PyStr(<<"A","P","A","R","T">>)>>)
         [] sub = "postal_codes" -> PyList(<<S("7", "5")>>)
         [] sub = "time_to" -> PyDict("json", <<>>)
         [] OTHER -> PyList(<<None, None>>)])

\* a configuration that passes every check
ValidConfig ==
  PyDict("json",
    ("constraints" :> ValidConstraints) @@ ("data_directory" :> S("/", "d"))
    @@ ("database" :> S("d", "b")) @@ ("search_index" :> S("/", "s"))
    @@ DEFAULT_CONFIG.v)

\* a change of one key: at the top level or inside constraints, the key set
\* to a value or removed
Set(key, val) == [sub |-> FALSE, key |-> key, del |-> FALSE, val |-> val]
Del(key) == [sub |-> FALSE, key |-> key, del |-> TRUE, val |-> None]
SubSet(key, val) == [sub |-> TRUE, key |-> key, del |-> FALSE, val |-> val]
SubDel(key) == [sub |-> TRUE, key |-> key, del |-> TRUE, val |-> None]

Without(d, key) == PyDict(d.id, [k \in DOMAIN d.v \ {key} |-> d.v[k]])
Change(d, m) == IF m.del THEN Without(d, m.key) ELSE SetItem(d, m.key, m.val)
ApplyMod(config, m) ==
  IF ~m.sub THEN Change(config, m)
  ELSE IF "constraints" \in DOMAIN config.v /\ config.v["constraints"].t = "dict"
  THEN SetItem(config, "constraints", Change(config.v["constraints"], m))
  ELSE config

BoundKeys == {"area", "cost", "rooms", "bedrooms"}
Gps == PyList(<<PyInt(1), PyInt(2)>>)
TimeTo(item) == PyDict("json", "work" :> item)
TimeToItem(gps, time) == PyDict("json", ("gps" :> gps) @@ ("time" :> time))

\* the values of a bound
BoundElems ==
  {None, PyBool(TRUE), PyFloat(1), PyStr(<<"a">>)}
  \cup {PyInt(n) : n \in -1 .. MaxNum}
BoundSeqs == UNION {[1 .. n -> BoundElems] : n \in 0 .. MaxBoundLen}
BoundVals ==
  {PyList(s) : s \in BoundSeqs}
  \cup {NoBound, PyTuple(<<PyInt(2), PyInt(1)>>), PyList(<<PyBool(FALSE), PyBool(TRUE)>>),
        PyInt(5), None, S("a", "b"),
        PyDict("json", <<>>), PyDict("json", ("0" :> PyInt(0)) @@ ("1" :> PyInt(1)))}
BoundMods ==
  {SubSet(key, b) : key \in BoundKeys, b \in BoundVals}
  \cup {SubSet("time_to", TimeTo(TimeToItem(Gps, b))) : b \in BoundVals}

\* changes inside constraints
ConstraintMods ==
  {SubDel(key) : key \in {"type", "house_types", "postal_codes", "area", "cost",
                          "rooms", "bedrooms", "time_to"}}
  \cup {SubSet("type", v) : v \in {None, PyInt(5), PyStr(<<"b","u","y">>),
                                   PyStr(<<"R","E","N","T">>), PyStr(<<"S","a","l","e">>)}}
  \cup {SubSet("house_types", v) :
          v \in {None, PyInt(5), PyList(<<>>), PyStr(<<"a","p","a","r","t">>),
                 PyList(<<PyStr(<<"a","p","a","r","t">>)>>),
                 PyList(<<PyStr(<<"c","a","s","t","l","e">>)>>),
                 PyList(<<PyStr(<<"L","A","N","D">>), PyInt(5)>>)}}
  \cup {SubSet("postal_codes", v) : v \in {None, PyList(<<>>), S("7", "5")}}
  \cup {SubSet(key, v) : key \in BoundKeys,
          v \in {PyList(<<PyInt(1), PyInt(2)>>), PyList(<<PyInt(2), PyInt(1)>>),
                 PyList(<<PyInt(-1), None>>), PyList(<<None>>), PyInt(5)}}
  \cup {SubSet("time_to", v) :
          v \in {None, PyList(<<>>), TimeTo(PyInt(5)), TimeTo(S("g", "p")),
                 TimeTo(PyList(<<PyStr(<<"g","p","s">>)>>)),
                 TimeTo(PyDict("json", "gps" :> Gps)),
                 TimeTo(PyDict("json", "time" :> NoBound)),
                 TimeTo(TimeToItem(PyTuple(<<PyInt(1), PyInt(2)>>), NoBound)),
                 TimeTo(TimeToItem(PyList(<<PyInt(1)>>), NoBound)),
                 TimeTo(TimeToItem(Gps, PyList(<<PyInt(0), PyInt(2)>>))),
                 TimeTo(TimeToItem(Gps, PyList(<<PyInt(2), PyInt(2)>>))),
                 TimeTo(TimeToItem(Gps, PyInt(5)))}}

\* changes of the top-level keys
TopMods ==
  {Set("constraints", v) :
     v \in {None, PyInt(5), PyStr(<<"t","y","p","e">>),
            PyList(<<PyStr(<<"t","y","p","e">>)>>), PyDict("json", <<>>),
            PyDict("json", ("type" :> PyStr(<<"r","e","n","t">>))
                           @@ ("postal_codes" :> PyList(<<S("7", "5")>>)))}}
  \cup {Set("passes", v) : v \in {None, PyInt(0), PyInt(1), PyInt(5), PyBool(TRUE),
                                  PyFloat(2), S("1", "0")}}
  \cup {Set("max_entries", v) : v \in {None, PyInt(0), PyInt(10), PyFloat(1), S("1", "0")}}
  \cup {Set("data_directory", v) : v \in {None, PyInt(5), S("/", "f"), PyStr(<<"/","f","/">>),
                                         PyStr(<<>>)}}
  \cup {Set("search_index", v) : v \in {None, PyInt(5), S("/", "i"), PyStr(<<>>)}}
  \cup {Set("modules_path", v) : v \in {None, PyInt(5), S("/", "m")}}
  \cup {Set("database", v) : v \in {None, PyInt(5), S("m", "y"), PyStr(<<>>)}}
  \cup {Set("port", v) : v \in {None, PyInt(9000), PyFloat(80), S("8", "0")}}
  \cup {Set("host", v) : v \in {None, PyInt(5), S("h", "o")}}
  \cup {Set("webserver", v) : v \in {None, PyInt(5), S("w", "s")}}
  \cup {Set("backends", v) : v \in {None, S("b", "e"), PyList(<<S("b", "e")>>)}}
  \cup {Set("navitia_api_key", v) : v \in {None, PyInt(5)}}
  \cup {Set("unknown", PyInt(1))}

TopKeys == DOMAIN DEFAULT_CONFIG.v
Mods == ConstraintMods \cup TopMods
\* changes that make one check fail, to be combined with a first change
LaterMods ==
  {SubDel("type"), SubSet("house_types", PyList(<<>>)), SubSet("house_types", PyInt(5)),
   SubDel("postal_codes"), SubSet("area", PyList(<<PyInt(2), PyInt(1)>>)),
   SubSet("cost", PyList(<<None>>)), SubSet("rooms", PyInt(5)),
   SubSet("bedrooms", PyList(<<PyInt(-1), None>>)),
   SubSet("time_to", TimeTo(TimeToItem(Gps, PyList(<<PyInt(2), PyInt(2)>>)))),
   SubSet("time_to", TimeTo(PyInt(5))),
   Set("passes", PyInt(5)), Set("max_entries", PyInt(0)), Set("data_directory", PyInt(5)),
   Set("search_index", None), Set("modules_path", PyInt(5)), Set("database", PyInt(5)),
   Set("port", S("8", "0")), Set("host", None), Set("webserver", PyInt(5)),
   Set("backends", S("b", "e")), Del("passes"), Set("constraints", PyInt(5))}

\* the configurations handed to validate_config directly
Candidates ==
  {ApplyMod(ApplyMod(ValidConfig, m1), m2) : m1 \in Mods, m2 \in LaterMods}
  \cup {ApplyMod(ValidConfig, m) : m \in BoundMods \cup {Del(key) : key \in TopKeys}}
  \cup {default_config, None, PyInt(5), PyList(<<>>),
        PyStr(<<"c","o","n","s","t","r","a","i","n","t","s">>)}

\* what the configuration file holds: a JSON document, or nothing readable
Overlay == PyDict("json", "constraints" :> ValidConstraints)
Documents ==
  {Overlay, PyDict("json", <<>>)}
  \cup {ApplyMod(Overlay, m) : m \in Mods}
  \cup {ApplyMod(PyDict("json", <<>>), m) : m \in TopMods}
  \cup {ApplyMod(ApplyMod(Overlay, Set("database", S("m", "y"))), m) :
          m \in {Set("search_index", S("/", "i")), Set("data_directory", S("/", "f")),
                 Set("data_directory", PyInt(5))}}
  \cup {ApplyMod(ApplyMod(Overlay, SubDel("postal_codes")), m) :
          m \in {SubSet("house_types", PyInt(5)), Set("data_directory", PyInt(5))}}
  \cup {None, PyInt(5), PyBool(TRUE), PyStr(<<>>), S("a", "b"), PyList(<<>>),
        PyList(<<S("a", "b")>>),
        PyList(<<PyList(<<PyStr(<<"port">>), PyInt(9000)>>)>>),
        PyList(<<PyList(<<PyStr(<<"port">>), PyInt(9000)>>), PyList(<<PyInt(1)>>)>>),
        PyList(<<PyList(<<PyStr(<<"port">>), PyInt(9000)>>), PyInt(1)>>)}
Files ==
  {[kind |-> "json", value |-> d] : d \in Documents}
  \cup {[kind |-> k, value |-> None] : k \in {"missing", "unreadable", "invalid_json"}}

\* the argparse namespaces
Namespaces ==
  {[given |-> TRUE, config |-> S("c", "f"), file |-> f, passes |-> p,
    max_entries |-> m, port |-> q, host |-> h, data_dir |-> d] :
      f \in Files, p \in {None, PyInt(0)}, m \in {None, PyInt(7)},
      q \in {None, PyInt(9999)}, h \in {None, S("h", "c")}, d \in {None, S("/", "c")}}
  \cup {[given |-> TRUE, config |-> c, file |-> NoFile, passes |-> p,
         max_entries |-> m, port |-> q, host |-> h, data_dir |-> d] :
      c \in {None, PyStr(<<>>)}, p \in {None, PyInt(0)}, m \in {None, PyInt(7)},
      q \in {None, PyInt(9999)}, h \in {None, S("h", "c")}, d \in {None, S("/", "c")}}
  \cup {NoArgs}

Outputs == {None, PyStr(<<>>), PyStr(<<"-">>), S("o", "f")}

----------------------------------------------------------------------------
(* The calls *)

NoCall == [name |-> "-", args |-> NoArgs, candidate |-> None, output |-> None]
NoOutcome == Outcome("-", "-", 0, <<>>, NotValidated)

Init ==
  /\ interpreter \in {"python2", "python3"}
  /\ default_config = DEFAULT_CONFIG
  /\ call = NoCall
  /\ config_data = None
  /\ outcome = NoOutcome
  /\ handed_out = None

\* load_config(args) runs to its end
LoadConfig ==
  /\ call = NoCall
  /\ \E args \in Namespaces :
       LET ended == load_config(args)
       IN /\ call' = [NoCall EXCEPT !.name = "load_config", !.args = args]
          /\ config_data' = ended.config_data
          /\ outcome' = ended.outcome
          /\ handed_out' = IF ended.outcome.k = "config" THEN ended.config_data ELSE None
  /\ UNCHANGED <<interpreter, default_config>>

\* init_config(output) runs to its end
InitConfig ==
  /\ call = NoCall
  /\ \E output \in Outputs :
       LET ended == init_config(output)
       IN /\ call' = [NoCall EXCEPT !.name = "init_config", !.output = output]
          /\ config_data' = ended.config_data
          /\ outcome' = ended.outcome
  /\ handed_out' = None
  /\ UNCHANGED <<interpreter, default_config>>

\* validate_config(config) called on its own
ValidateConfig ==
  /\ call = NoCall
  /\ \E config \in Candidates :
       LET ended == validate_config(config)
       IN /\ call' = [NoCall EXCEPT !.name = "validate_config", !.candidate = config]
          /\ outcome' = Outcome(IF ended.k = "raise" THEN "raise" ELSE "value",
                                ended.exc, ended.line, <<>>, ended)
  /\ config_data' = None
  /\ handed_out' = None
  /\ UNCHANGED <<interpreter, default_config>>

\* the caller of load_config writes into the constraints of the dict it was
\* given; every holder of that constraints object sees the write
MutateHandedOut ==
  /\ handed_out.t = "dict"
  /\ handed_out.v["constraints"].t = "dict"
  /\ \E v \in {None, PyStr(<<"S","A","L","E">>)} :
       LET c == SetItem(handed_out.v["constraints"], "type", v)
       IN /\ handed_out.v["constraints"] # c
          /\ handed_out' = SetItem(handed_out, "constraints", c)
          /\ default_config' =
               IF default_config.v["constraints"].id = c.id
               THEN SetItem(default_config, "constraints", c)
               ELSE default_config
  /\ UNCHANGED <<interpreter, call, config_data, outcome>>

\* the call is over: its frame and the value it returned are dropped
Discard ==
  /\ call # NoCall
  /\ call' = NoCall
  /\ config_data' = None
  /\ outcome' = NoOutcome
  /\ handed_out' = None
  /\ UNCHANGED <<interpreter, default_config>>

Next == LoadConfig \/ InitConfig \/ ValidateConfig \/ MutateHandedOut \/ Discard

Spec == Init /\ [][Next]_vars

----------------------------------------------------------------------------
(* Vocabulary of the properties *)

Args == call.args
ReadsFile == Args.given /\ Truthy(Args.config)
\* the file holds a JSON object / no file content reaches the configuration
ObjectOverlay == ReadsFile /\ Args.file.kind = "json" /\ Args.file.value.t = "dict"
Unloadable == ReadsFile /\ Args.file.kind \in {"missing", "unreadable", "invalid_json"}
MappingOrNothing == call.name = "load_config" /\ (ObjectOverlay \/ ~ReadsFile \/ Unloadable)

FileHas(key) == ObjectOverlay /\ key \in DOMAIN Args.file.value.v
\* the value of key after the file layer: the file's, else the baseline's
AfterFile(key) == IF FileHas(key) THEN Args.file.value.v[key] ELSE default_config.v[key]
CliAttr(key) == IF key = "data_directory" THEN "data_dir" ELSE key
CliKeys == {"passes", "max_entries", "port", "host", "data_directory"}
CliHas(key) == Args.given /\ key \in CliKeys /\ Args[CliAttr(key)].t # "None"
\* the value of key after the CLI layer
AfterCli(key) == IF CliHas(key) THEN Args[CliAttr(key)] ELSE AfterFile(key)

\* lines 162-219 ran to the call of validate_config
Resolved == call.name = "load_config" /\ outcome.validation # NotValidated

HasPrefix(s, p) == Len(p) <= Len(s) /\ SubSeq(s, 1, Len(p)) = p
HasSuffix(s, p) == Len(p) <= Len(s) /\ SubSeq(s, Len(s) - Len(p) + 1, Len(s)) = p
\* s is the file name directly under the directory dir, after the prefix
Under(s, prefix, dir, name) ==
  /\ HasPrefix(s, prefix \o dir)
  /\ HasSuffix(s, name)
  /\ \/ Len(s) = Len(prefix) + Len(dir) + Len(name)
     \/ /\ Len(s) = Len(prefix) + Len(dir) + 1 + Len(name)
        /\ s[Len(prefix) + Len(dir) + 1] = "/"

----------------------------------------------------------------------------
(* C1 *)

\* C1: after load_config has merged its layers, each of passes, max_entries,
\* port and host holds the CLI value when one was given (0 included), else
\* the file's value when the file has the key, else the baseline's; and
\* data_directory holds the value chosen the same way, replaced by the
\* platform directory when that value is None.
C1_Precedence ==
  MappingOrNothing =>
    /\ \A key \in {"passes", "max_entries", "port", "host"} :
         config_data.v[key] = AfterCli(key)
    /\ config_data.v["data_directory"] =
         IF AfterCli("data_directory").t = "None" THEN PyStr(UserDataDir)
         ELSE AfterCli("data_directory")

\* a configuration is returned whose port is the CLI's 9999 over the file's
\* 9000 and whose passes is the CLI's 0
C1_Witness ==
  /\ call.name = "load_config"
  /\ outcome.k = "config"
  /\ FileHas("port") /\ Args.file.value.v["port"] = PyInt(9000)
  /\ Args.port = PyInt(9999) /\ config_data.v["port"] = PyInt(9999)
  /\ Args.passes = PyInt(0) /\ config_data.v["passes"] = PyInt(0)

----------------------------------------------------------------------------
(* C2 *)

ValidatesBaseline == call.name = "validate_config" /\ call.candidate = default_config

\* C2 as claimed: validate_config returns True on the unmodified baseline.
C2_BaselineValid == ValidatesBaseline => outcome.validation.k = "True"

\* C2 amended: validate_config never returns True on the unmodified
\* baseline, whose constraints.type is None: the isinstance check of line 98
\* is where it ends; and init_config copies and emits the baseline without
\* validating it.
C2_BaselineNotValid ==
  /\ ValidatesBaseline =>
       /\ outcome.validation.k # "True"
       /\ outcome.validation.line = 98
  /\ call.name = "init_config" =>
       /\ outcome.validation = NotValidated
       /\ config_data.v = default_config.v
       /\ outcome.sink \in {"file", "stdout"}

C2_Witness ==
  /\ ValidatesBaseline
  /\ default_config = DEFAULT_CONFIG
  /\ outcome.validation = Returned("location", 98)

----------------------------------------------------------------------------
(* C3 *)

\* C3: load_config never raises; it returns a configuration that
\* validate_config accepts, or None.
C3_NeverRaises ==
  call.name = "load_config" =>
    /\ outcome.k \in {"config", "None"}
    /\ outcome.k = "config" => outcome.validation.k = "True"
    /\ outcome.k = "None" => outcome.validation.k = "location"

----------------------------------------------------------------------------
(* C4 *)

\* C4: validate_config returns True or a failure location for every
\* candidate, malformed shapes included; no exception leaves it.
C4_ValidateNeverRaises ==
  call.name = "validate_config" => outcome.validation.k \in {"True", "location"}

----------------------------------------------------------------------------
(* C5 *)

\* C5: when the file is missing, unreadable or not JSON, load_config ends as
\* it does for the same options without a configuration file: same
\* config_data, same result; the only trace of the load failure is one more
\* logged error.
C5_UnloadableIsNoFile ==
  (call.name = "load_config" /\ Unloadable) =>
    LET without == load_config([Args EXCEPT !.config = None, !.file = NoFile])
    IN /\ config_data = without.config_data
       /\ outcome.k = without.outcome.k
       /\ outcome.exc = without.outcome.exc
       /\ outcome.line = without.outcome.line
       /\ outcome.validation = without.outcome.validation
       /\ outcome.errors = <<"load">> \o without.outcome.errors
       /\ outcome.exc \notin {"IOError", "ValueError"}

C5_Witness ==
  /\ call.name = "load_config"
  /\ Args.file.kind = "invalid_json" /\ ReadsFile
  /\ Args.port = PyInt(9999) /\ config_data.v["port"] = PyInt(9999)
  /\ config_data.v["passes"] = PyInt(3)
  /\ outcome.errors = <<"load", "validation">>

----------------------------------------------------------------------------
(* C6 *)

\* C6: once load_config has resolved its paths, a database that was None
\* after the merge is "sqlite:///" followed by the file flatisfy.db under
\* the resolved data_directory, and a search_index that was None is the path
\* search_index under it; a database or search_index the file sets is kept
\* as the file gave it, whatever the CLI or the default did to
\* data_directory.
C6_Derivation ==
  (MappingOrNothing /\ Resolved) =>
    /\ IF AfterFile("database").t = "None"
       THEN /\ config_data.v["database"].t = "str"
            /\ Under(config_data.v["database"].v, SQLITE,
                     config_data.v["data_directory"].v, FLATISFY_DB)
       ELSE config_data.v["database"] = AfterFile("database")
    /\ IF AfterFile("search_index").t = "None"
       THEN /\ config_data.v["search_index"].t = "str"
            /\ Under(config_data.v["search_index"].v, <<>>,
                     config_data.v["data_directory"].v, SEARCH_INDEX)
       ELSE config_data.v["search_index"] = AfterFile("search_index")

\* the CLI overrides data_directory; the file's database is kept and the
\* search_index is derived under the CLI's directory
C6_Witness ==
  /\ Resolved /\ outcome.k = "config"
  /\ CliHas("data_directory")
  /\ FileHas("database") /\ config_data.v["database"] = S("m", "y")
  /\ ~FileHas("search_index")
  /\ config_data.v["search_index"] = PyStr(<<"/","c","/">> \o SEARCH_INDEX)

----------------------------------------------------------------------------
(* C7 *)

Candidate == call.candidate

\* a bound as the data model defines it: two elements, each None or a number
\* that is not negative (a Python bool is an int), the second above the first
\* when both are given
IsNumber(x) == x.t \in {"int", "float", "bool"}
BoundOK(b) ==
  /\ Len(b.v) = 2
  /\ \A i \in 1 .. 2 : b.v[i].t = "None" \/ (IsNumber(b.v[i]) /\ NumVal(b.v[i]) >= 0)
  /\ (b.v[1].t # "None" /\ b.v[2].t # "None") => NumVal(b.v[2]) > NumVal(b.v[1])

IsSequence(x) == x.t \in {"list", "tuple"}
\* the candidate has a sequence at every place a bound is expected
BoundsAreSequences(c) ==
  /\ c.t = "dict" /\ "constraints" \in DOMAIN c.v /\ c.v["constraints"].t = "dict"
  /\ \A key \in BoundKeys :
       key \in DOMAIN c.v["constraints"].v /\ IsSequence(c.v["constraints"].v[key])
  /\ "time_to" \in DOMAIN c.v["constraints"].v
  /\ c.v["constraints"].v["time_to"].t = "dict"
  /\ \A name \in DOMAIN c.v["constraints"].v["time_to"].v :
       LET item == c.v["constraints"].v["time_to"].v[name]
       IN item.t = "dict" /\ "time" \in DOMAIN item.v /\ IsSequence(item.v["time"])
BoundsOf(c) ==
  {c.v["constraints"].v[key] : key \in BoundKeys}
  \cup {c.v["constraints"].v["time_to"].v[name].v["time"] :
          name \in DOMAIN c.v["constraints"].v["time_to"].v}
\* the candidate with every bound replaced by (None, None)
Unbounded(c) ==
  LET cs == c.v["constraints"]
      tt == cs.v["time_to"]
  IN SetItem(c, "constraints",
       PyDict(cs.id,
         [key \in DOMAIN cs.v |->
            IF key \in BoundKeys THEN NoBound
            ELSE IF key = "time_to"
            THEN PyDict(tt.id, [name \in DOMAIN tt.v |-> SetItem(tt.v[name], "time", NoBound)])
            ELSE cs.v[key]]))

\* C7: the bound sub-check passes a sequence exactly when it is a bound of the
\* data model, at every place validate_config applies it: area, cost, rooms,
\* bedrooms and the time of each time_to entry.  A configuration is never
\* accepted with a bound that is not one, and a configuration that is
\* accepted with all its bounds unset is accepted exactly when all its bounds
\* are bounds of the data model, and refused by the sub-check otherwise.
C7_BoundCheck ==
  (call.name = "validate_config" /\ BoundsAreSequences(Candidate)) =>
    /\ \A b \in BoundsOf(Candidate) : (_check_constraints_bounds(b) = Passed) <=> BoundOK(b)
    /\ outcome.validation.k = "True" => \A b \in BoundsOf(Candidate) : BoundOK(b)
    /\ validate_config(Unbounded(Candidate)).k = "True" =>
         IF \A b \in BoundsOf(Candidate) : BoundOK(b)
         THEN outcome.validation.k = "True"
         ELSE /\ outcome.validation.k = "location"
              /\ outcome.validation.line \in {79, 80, 89}

\* a time_to entry whose time is (2, 2) is refused by the sub-check
C7_Witness ==
  /\ call.name = "validate_config"
  /\ Candidate = ApplyMod(ValidConfig,
                   SubSet("time_to", TimeTo(TimeToItem(Gps, PyList(<<PyInt(2), PyInt(2)>>)))))
  /\ outcome.validation = Returned("location", 89)

----------------------------------------------------------------------------
(* C8 *)

\* C8: the working copy of load_config and init_config shares no dict with
\* DEFAULT_CONFIG, and DEFAULT_CONFIG stays as the module defines it.
C8_IndependentCopy ==
  /\ default_config = DEFAULT_CONFIG
  /\ (call.name \in {"load_config", "init_config"} /\ config_data.t = "dict") =>
       /\ config_data.id # default_config.id
       /\ \A key \in DOMAIN config_data.v : \A shared \in DOMAIN default_config.v :
            (config_data.v[key].t = "dict" /\ default_config.v[shared].t = "dict")
               => config_data.v[key].id # default_config.v[shared].id

----------------------------------------------------------------------------
(* C9 *)

\* the order of the checks in the schema
SchemaOrder ==
  << "type", "house_types", "postal_codes", "area", "cost", "rooms",
     "bedrooms", "time_to", "passes", "max_entries", "data_directory",
     "search_index", "modules_path", "database", "port", "host", "webserver",
     "backends" >>

\* the lines of validate_config's body that belong to each check
CheckLines(check) ==
  CASE check = "type" -> {97, 98, 99}
    [] check = "house_types" -> {102, 103, 104, 105}
    [] check = "postal_codes" -> {108, 109}
    [] check = "area" -> {111, 112}
    [] check = "cost" -> {114, 115}
    [] check = "rooms" -> {117, 118}
    [] check = "bedrooms" -> {120, 121}
    [] check = "time_to" -> 123 .. 131
    [] check = "passes" -> {133}
    [] check = "max_entries" -> {134}
    [] check = "data_directory" -> {136}
    [] check = "search_index" -> {137}
    [] check = "modules_path" -> {138}
    [] check = "database" -> {140}
    [] check = "port" -> {142}
    [] check = "host" -> {143}
    [] check = "webserver" -> {144}
    [] check = "backends" -> {145}
\* the lines of the bound sub-check, shared by the checks that call it
BoundLines(check) ==
  IF check \in BoundKeys \cup {"time_to"} THEN {79, 80, 89} ELSE {}

Fails(c, check) == FirstExc(CheckSteps(c, check)).exc # "ok"
SomeCheckFails(c) == \E i \in DOMAIN SchemaOrder : Fails(c, SchemaOrder[i])
\* the first check of the schema order that the candidate does not pass
FirstFailing(c) ==
  SchemaOrder[CHOOSE i \in DOMAIN SchemaOrder :
                /\ Fails(c, SchemaOrder[i])
                /\ \A j \in 1 .. (i - 1) : ~Fails(c, SchemaOrder[j])]

LacksType(c) ==
  /\ c.t = "dict" /\ "constraints" \in DOMAIN c.v
  /\ c.v["constraints"].t = "dict" /\ "type" \notin DOMAIN c.v["constraints"].v

\* C9 as claimed: the failure descriptor validate_config returns is a line of
\* the first failing check of the schema order, so that it identifies it.
C9_DescriptorIdentifiesCheck ==
  (call.name = "validate_config" /\ outcome.validation.k = "location") =>
    outcome.validation.line \in CheckLines(FirstFailing(Candidate))

\* C9 amended: validate_config returns True exactly when no check fails;
\* otherwise it stops in the first failing check of the schema order: the
\* line it reports is a line of that check and of no later one, or, when that
\* check is one of area, cost, rooms, bedrooms, time_to, a line of the bound
\* sub-check they share, which tells the bound rule but not the field.  A
\* candidate whose constraints mapping lacks the key type gets the descriptor
\* of the type check's line 97.
C9_StopsAtFirstFailure ==
  call.name = "validate_config" =>
    /\ outcome.validation.k = "True" <=> ~SomeCheckFails(Candidate)
    /\ outcome.validation.k # "True" =>
         outcome.validation.line \in
           CheckLines(FirstFailing(Candidate)) \cup BoundLines(FirstFailing(Candidate))
    /\ LacksType(Candidate) => outcome.validation = Returned("location", 97)

\* cost is (2, 1) and passes is 5: the descriptor is the sub-check's line 89,
\* not a line of the cost check and not the later passes check
C9_Witness ==
  /\ call.name = "validate_config"
  /\ Candidate = ApplyMod(ApplyMod(ValidConfig, SubSet("cost", PyList(<<PyInt(2), PyInt(1)>>))),
                          Set("passes", PyInt(5)))
  /\ outcome.validation = Returned("location", 89)

----------------------------------------------------------------------------
(* C10 *)

ConstraintKeys ==
  <<"type", "house_types", "postal_codes", "area", "cost", "rooms", "bedrooms", "time_to">>
InLine(key) ==
  CASE key = "type" -> 97 [] key = "house_types" -> 102 [] key = "postal_codes" -> 108
    [] key = "area" -> 111 [] key = "cost" -> 114 [] key = "rooms" -> 117
    [] key = "bedrooms" -> 120 [] key = "time_to" -> 123
\* the file's constraints is a mapping that omits one of the sub-keys
FileOmitsSubKey ==
  /\ FileHas("constraints")
  /\ Args.file.value.v["constraints"].t = "dict"
  /\ \E i \in DOMAIN ConstraintKeys :
       ConstraintKeys[i] \notin DOMAIN Args.file.value.v["constraints"].v
FirstOmitted ==
  ConstraintKeys[CHOOSE i \in DOMAIN ConstraintKeys :
                   /\ ConstraintKeys[i] \notin DOMAIN Args.file.value.v["constraints"].v
                   /\ \A j \in 1 .. (i - 1) :
                        ConstraintKeys[j] \in DOMAIN Args.file.value.v["constraints"].v]

\* C10: with a JSON object as file, every top-level key of the merged
\* configuration holds the file's value when the file has the key, unknown
\* keys included, and the baseline's otherwise, unless the CLI overrides it
\* (a data_directory, database or search_index left None is then derived);
\* the file's constraints replaces the baseline's as a whole, so a file whose
\* constraints omits a sub-key ends in None, validation having stopped no
\* later than the check for the omitted key.
C10_ShallowMerge ==
  (call.name = "load_config" /\ ObjectOverlay) =>
    /\ DOMAIN config_data.v = DOMAIN default_config.v \cup DOMAIN Args.file.value.v
    /\ \A key \in DOMAIN config_data.v :
         \/ key \in {"data_directory", "database", "search_index"}
              /\ AfterCli(key).t = "None"
         \/ config_data.v[key] = AfterCli(key)
    /\ FileOmitsSubKey =>
         /\ outcome.k = "None"
         /\ outcome.validation.k = "location"
         /\ outcome.validation.line <= InLine(FirstOmitted)

====
